---- MODULE Spec2Model ----
(***************************************************************************)
(* CacheLibCache (fbgemm_gpu/src/split_embeddings_cache/cachelib_cache.cpp) *)
(* A sharded key -> row cache on top of an LRU allocator, with a removal    *)
(* callback that copies evicted rows into a capture buffer.                 *)
(***************************************************************************)
EXTENDS Integers, Sequences, FiniteSets, TLC

VARIABLES
  pools,                 \* cache_: per pool, the live items in LRU order (head = next victim)
  free,                  \* cache_: per pool, freeMemoryBytes()
  evicted_indices_ptr_,  \* shared_ptr<Tensor>: [null, data]
  evicted_weights_ptr_,  \* shared_ptr<Tensor>: [null, dtype, dim, data]
  eviction_row_id,       \* the eviction cursor
  fault,                 \* how the process left defined behaviour, if it did
  last,                  \* history: the last call, its arguments and what it returned
  cycle,                 \* history: the capture cycle (since the last arm / reset)
  th,                    \* per thread: where its put stands, and its locals
  row_config,            \* cache_config_.item_size_bytes and cache_config_.max_D_
  scan                   \* get_all_items running step by step: its position and locals

vars == <<pools, free, evicted_indices_ptr_, evicted_weights_ptr_, eviction_row_id,
          fault, last, cycle, th, row_config, scan>>

-----------------------------------------------------------------------------
(* Bounds of the model: the configuration and the inputs that are explored. *)

MaxLookups == 2
NThreads == 2

(* CacheConfig: the configuration the engine is constructed with.            *)
cache_config_ ==
  [num_shards |-> 2, cache_size_bytes |-> 5, item_size_bytes |-> 1, max_D_ |-> 1]

(* The item_size_bytes and max_D_ an engine can be constructed with: element  *)
(* widths of 1, 2, 4 and 8 bytes, a width of 3, and a row of two elements.    *)
RowConfigs ==
  { [item_size_bytes |-> 1, max_D_ |-> 1], [item_size_bytes |-> 2, max_D_ |-> 1],
    [item_size_bytes |-> 4, max_D_ |-> 1], [item_size_bytes |-> 8, max_D_ |-> 1],
    [item_size_bytes |-> 3, max_D_ |-> 1], [item_size_bytes |-> 2, max_D_ |-> 2] }

(* at::ones(...) * -1 : the value every slot of evicted_keys is armed with.  *)
Sentinel == -1

(* The keys put and looked up; the sentinel value is a key like any other.   *)
Keys == { Sentinel, 0, 1 }

(* Rows are sequences of one-byte elements, of one, two and three elements.  *)
Rows == { <<1>>, <<2, 1>>, <<1, 1, 1>> }

(* The weights.size(1) and weights.dtype() the caller arms the capture with. *)
WeightDim == 1
ArmDTypes == { "Byte", "Half", "Double" }

(* A slot of at::empty memory nobody wrote, or a read past an item's bytes:  *)
(* an indeterminate element, kept apart from every element value of Rows.    *)
Uninit == 0

NoRow == << >>

-----------------------------------------------------------------------------
Shards == 0 .. (cache_config_.num_shards - 1)

Threads == 1 .. NThreads

(* cache_->getCacheMemoryStats().ramCacheSize                                *)
ramCacheSize == cache_config_.cache_size_bytes

(* data.nbytes()                                                             *)
nbytes(row) == Len(row)

RECURSIVE SumBytes(_)
SumBytes(items) ==
  IF items = << >> THEN 0 ELSE nbytes(Head(items).row) + SumBytes(Tail(items))

(* kv_db_utils::hash_shard(key, num_shards)                                  *)
hash_shard(key, num_shards) == key % num_shards

(* Every pool is given the whole cache size.                                 *)
PoolSize_undivided == ramCacheSize

(* CacheLibCache::CacheLibCache: every pool gets ramCacheSize / num_shards.  *)
PoolSize == ramCacheSize \div cache_config_.num_shards

(* pool_ids_: the handle addPool returned for shard i.                       *)
pool_ids_ == [i \in Shards |-> i]

(* CacheLibCache::get_shard_id                                               *)
get_shard_id(key) == hash_shard(key, Cardinality(DOMAIN pool_ids_))

(* Every key is sent to the first pool.                                      *)
get_pool_id_front(key) == pool_ids_[0]

(* CacheLibCache::get_pool_id                                                *)
get_pool_id(key) == pool_ids_[get_shard_id(key)]

-----------------------------------------------------------------------------
(* Tensors and the outcomes of undefined behaviour.                          *)

NullTensor == [null |-> TRUE, dtype |-> "none", dim |-> 0, data |-> << >>]

NoFault == [outcome |-> "none", cause |-> "none"]

(* What a build can do on a null dereference or an out-of-bounds store: trap,*)
(* or carry on with memory it does not own overwritten.                      *)
UBOutcomes == { "segv", "corrupt" }

(* The call did not return: the process died or an exception left the call.  *)
Aborted(st) == st.fault.outcome \in { "segv", "exception" }

(* FBGEMM_DISPATCH_FLOAT_HALF_AND_BYTE: the element types it has a case for; *)
(* any other type raises.                                                    *)
DispatchSupported(dtype) == dtype \in { "Float", "Half", "Byte" }

(* at::ScalarType bytes_to_dtype(int num_bytes); "throw" is the default case. *)
bytes_to_dtype(num_bytes) ==
  CASE num_bytes = 1 -> "Byte"
    [] num_bytes = 2 -> "Half"
    [] num_bytes = 4 -> "Float"
    [] num_bytes = 8 -> "Double"
    [] OTHER -> "throw"

(* sizeof(scalar_t) of an element type, in bytes.                            *)
elementSize(dtype) ==
  CASE dtype = "Byte" -> 1
    [] dtype = "Half" -> 2
    [] dtype = "Float" -> 4
    [] dtype = "Double" -> 8
    [] OTHER -> 0

(* std::copy(getMemory(), getMemory() + weight_dim, dst) on scalar_t         *)
(* pointers: weight_dim elements of size bytes each, whatever the item's     *)
(* own length is; the bytes past a shorter item are indeterminate.           *)
CopyRow(row, weight_dim, size) ==
  [j \in 1 .. weight_dim * size |-> IF j <= Len(row) THEN row[j] ELSE Uninit]

(* auto row_id = eviction_row_id++ : the slot claimed and the cursor after.  *)
claim_row_id(cursor) == [row_id |-> cursor, next |-> cursor + 1]

(* The removal callback installed by initializeCacheLib. st is the engine    *)
(* state it runs on, ub the outcome taken if it leaves defined behaviour.    *)
(* It runs on every removal of a call that is still running, also after a    *)
(* store past the buffer that did not stop the process.                      *)
eviction_cb(st, context, item, ub) ==
  IF Aborted(st) THEN st
  ELSE IF st.wts.null THEN
    \* evicted_weights_ptr_->scalar_type() on a null shared_ptr
    [st EXCEPT !.fault = [outcome |-> ub, cause |-> "null_deref"]]
  ELSE IF ~DispatchSupported(st.wts.dtype) THEN
    [st EXCEPT !.fault = [outcome |-> "exception", cause |-> "dispatch"]]
  ELSE IF context # "kEviction" THEN st
  ELSE
    LET claim == claim_row_id(st.row_id)
        row_id == claim.row_id
        weight_dim == st.wts.dim
    IN IF row_id >= Len(st.ind.data) THEN
         [st EXCEPT !.row_id = claim.next,
                    !.fault = [outcome |-> ub, cause |-> "oob_write"]]
       ELSE
         [st EXCEPT !.row_id = claim.next,
                    !.ind.data[row_id + 1] = item.key,
                    !.wts.data[row_id + 1] =
                       CopyRow(item.row, weight_dim, elementSize(st.wts.dtype))]

-----------------------------------------------------------------------------
(* The LRU allocator behind cache_.                                          *)

(* cache_->find: the live item stored under key, in whichever pool.          *)
Holders(ps, key) ==
  { pi \in UNION { { <<p, i>> : i \in DOMAIN ps[p] } : p \in DOMAIN ps } :
      ps[pi[1]][pi[2]].key = key }

RemoveAt(s, i) == SubSeq(s, 1, i - 1) \o SubSeq(s, i + 1, Len(s))

(* Eviction: the least recently used items of the pool are reclaimed until   *)
(* size bytes are free, and the removal callback fires for each of them.     *)
RECURSIVE reclaim(_, _, _, _)
reclaim(st, pid, size, ub) ==
  IF Aborted(st) \/ st.free[pid] >= size \/ st.pools[pid] = << >> THEN st
  ELSE
    LET victim == Head(st.pools[pid])
        st1 == [st EXCEPT !.pools[pid] = Tail(@),
                          !.free[pid] = @ + nbytes(victim.row),
                          !.evicted = Append(@, victim)]
    IN reclaim(eviction_cb(st1, "kEviction", victim, ub), pid, size, ub)

(* cache_->allocate: no handle when the pool can never hold size bytes;      *)
(* otherwise room is made by eviction.                                       *)
allocate(st, pid, size, ub) ==
  IF size > PoolSize THEN [st EXCEPT !.handle = FALSE]
  ELSE
    LET st1 == reclaim(st, pid, size, ub)
    IN IF Aborted(st1) THEN st1
       ELSE [st1 EXCEPT !.handle = TRUE, !.free[pid] = @ - size]

(* cache_->insertOrReplace: the item becomes the most recently used of its   *)
(* pool; an item already stored under the key is removed, and the removal    *)
(* callback fires for it with a reason that is not kEviction.                *)
insertOrReplace(st, pid, item, ub) ==
  LET old == Holders(st.pools, item.key)
      st1 == [st EXCEPT !.pools[pid] = Append(@, item)]
  IN IF old = {} THEN st1
     ELSE
       LET pi == CHOOSE x \in old : TRUE
           gone == st.pools[pi[1]][pi[2]]
           st2 == [st1 EXCEPT !.pools[pi[1]] = RemoveAt(@, pi[2]),
                              !.free[pi[1]] = @ + nbytes(gone.row),
                              !.replaced = TRUE]
       IN eviction_cb(st2, "kNormal", gone, ub)

(* put that releases the old entry of the key before it allocates.           *)
put_release_first(st, key, data, ub) ==
  LET pid == get_pool_id(key)
      old == Holders(st.pools, key)
      st0 == IF old = {} THEN st
             ELSE
               LET pi == CHOOSE x \in old : TRUE
                   gone == st.pools[pi[1]][pi[2]]
               IN eviction_cb([st EXCEPT !.pools[pi[1]] = RemoveAt(@, pi[2]),
                                         !.free[pi[1]] = @ + nbytes(gone.row),
                                         !.replaced = TRUE],
                              "kNormal", gone, ub)
      st1 == allocate(st0, pid, nbytes(data), ub)
  IN IF Aborted(st1) THEN st1
     ELSE IF ~st1.handle THEN [st1 EXCEPT !.ret = FALSE]
     ELSE [st1 EXCEPT !.pools[pid] = Append(@, [key |-> key, row |-> data]),
                      !.ret = TRUE]

(* put without the memcpy into the allocated item.                           *)
put_skip_copy(st, key, data, ub) ==
  LET pid == get_pool_id(key)
      st1 == allocate(st, pid, nbytes(data), ub)
  IN IF Aborted(st1) THEN st1
     ELSE IF ~st1.handle THEN [st1 EXCEPT !.ret = FALSE]
     ELSE
       LET blank == [j \in 1 .. Len(data) |-> Uninit]
           st2 == insertOrReplace(st1, pid, [key |-> key, row |-> blank], ub)
       IN IF Aborted(st2) THEN st2 ELSE [st2 EXCEPT !.ret = TRUE]

(* CacheLibCache::put                                                        *)
put(st, key, data, ub) ==
  LET pid == get_pool_id(key)
      st1 == allocate(st, pid, nbytes(data), ub)
  IN IF Aborted(st1) THEN st1
     ELSE IF ~st1.handle THEN [st1 EXCEPT !.ret = FALSE]
     ELSE
       LET st2 == insertOrReplace(st1, pid, [key |-> key, row |-> data], ub)
       IN IF Aborted(st2) THEN st2 ELSE [st2 EXCEPT !.ret = TRUE]

(* cache_->find: a hit makes the item the most recently used of its pool.    *)
find(ps, key) ==
  LET at == Holders(ps, key)
  IN IF at = {} THEN [hit |-> FALSE, row |-> NoRow, pools |-> ps]
     ELSE
       LET pi == CHOOSE x \in at : TRUE
           item == ps[pi[1]][pi[2]]
       IN [hit |-> TRUE, row |-> item.row,
           pools |-> [ps EXCEPT ![pi[1]] = Append(RemoveAt(@, pi[2]), item)]]

LiveKeys(ps) == { k \in Keys : Holders(ps, k) # {} }

-----------------------------------------------------------------------------
(* The engine's state as the operators above take it, and back.              *)

Engine ==
  [pools |-> pools, free |-> free,
   ind |-> evicted_indices_ptr_, wts |-> evicted_weights_ptr_,
   row_id |-> eviction_row_id, fault |-> fault,
   evicted |-> << >>, replaced |-> FALSE, handle |-> FALSE, ret |-> FALSE]

(* What a call hands back besides a row: the tensors of get_all_items or of   *)
(* get_evicted_indices_and_weights (some = FALSE is folly::none).            *)
NoOut == [some |-> FALSE, indices |-> << >>, weights |-> << >>, count |-> 0]

NoCall ==
  [op |-> "none", key |-> 0, row |-> NoRow, returned |-> TRUE, ret |-> FALSE,
   view |-> NoRow, evicted |-> << >>, replaced |-> FALSE, follows |-> FALSE,
   error |-> "none", out |-> NoOut]

Running == fault.outcome = "none"

(* A call that is under way carries on after a store past a buffer that did  *)
(* not trap; it ends at a trap, an exception or a failed CHECK.              *)
Alive == fault.outcome \in { "none", "corrupt" }

(* The capture cycle, as history.  pristine: nothing was evicted since the   *)
(* buffer was armed.  clean: the buffer was armed and the cursor reset to 0  *)
(* with no eviction in between, so the cycle started as the protocol asks.   *)
(* evs: the items evicted since a clean cycle started.  fresh: the keys put  *)
(* since then that were not in the cache when it started.                    *)
NoItem == [key |-> 0, row |-> NoRow]

IdleThread ==
  [pc |-> "idle", key |-> 0, row |-> NoRow, context |-> "none", item |-> NoItem,
   after |-> "none", row_id |-> 0, ret |-> FALSE]

NoCycle ==
  [clean |-> FALSE, pristine |-> FALSE, fresh |-> {}, evs |-> << >>,
   armed |-> FALSE, count |-> 0]

(* get_all_items is not running.                                             *)
IdleScan ==
  [pc |-> "idle", next_pool |-> 0, total_num_items |-> 0, item_idx |-> 0,
   itr |-> Sentinel - 1, indices |-> << >>, weights |-> << >>]

EvictedKeys(evs) == { evs[i].key : i \in DOMAIN evs }

Init ==
  /\ pools = [p \in Shards |-> << >>]
  /\ free = [p \in Shards |-> PoolSize]
  /\ evicted_indices_ptr_ = NullTensor
  /\ evicted_weights_ptr_ = NullTensor
  /\ eviction_row_id = 0
  /\ fault = NoFault
  /\ last = NoCall
  /\ cycle = NoCycle
  /\ th = [t \in Threads |-> IdleThread]
  /\ row_config = [item_size_bytes |-> cache_config_.item_size_bytes,
                   max_D_ |-> cache_config_.max_D_]
  /\ scan = IdleScan

(* bool put(int64_t key, const at::Tensor& data)                             *)
Put(key, data) ==
  /\ Running
  /\ UNCHANGED <<row_config, scan>>
  /\ \E ub \in UBOutcomes :
       LET st == put(Engine, key, data, ub)
       IN /\ (st.fault.outcome = "none" => ub = "segv")
          /\ pools' = st.pools
          /\ free' = st.free
          /\ evicted_indices_ptr_' = st.ind
          /\ evicted_weights_ptr_' = st.wts
          /\ eviction_row_id' = st.row_id
          /\ fault' = st.fault
          /\ last' = [NoCall EXCEPT !.op = "put", !.key = key, !.row = data,
                                     !.returned = ~Aborted(st), !.ret = st.ret,
                                     !.evicted = st.evicted,
                                     !.replaced = st.replaced]
          /\ UNCHANGED th
          /\ cycle' = [cycle EXCEPT
                         !.pristine = @ /\ st.evicted = << >>,
                         !.evs = IF cycle.clean THEN @ \o st.evicted ELSE << >>,
                         !.fresh =
                           IF /\ cycle.clean
                              /\ st.handle
                              /\ key \notin LiveKeys(pools)
                              /\ key \notin EvictedKeys(cycle.evs)
                           THEN @ \cup {key} ELSE @]

(* A get that takes the entry out of the cache when it hits.                 *)
Get_removing(key) ==
  /\ Running
  /\ LET r == find(pools, key)
         at == Holders(pools, key)
     IN /\ pools' = [p \in Shards |->
                       SelectSeq(pools[p], LAMBDA it : it.key # key)]
        /\ free' = [p \in Shards |->
                      free[p] + SumBytes(SelectSeq(pools[p], LAMBDA it : it.key = key))]
        /\ last' = [NoCall EXCEPT !.op = "get", !.key = key,
                                  !.ret = r.hit, !.view = r.row]
  /\ UNCHANGED <<evicted_indices_ptr_, evicted_weights_ptr_,
                 eviction_row_id, fault, cycle, th, row_config, scan>>

(* A get that leaves the recency of the entry it hits as it was.             *)
Get_no_refresh(key) ==
  /\ Running
  /\ LET r == find(pools, key)
     IN last' = [NoCall EXCEPT !.op = "get", !.key = key,
                               !.ret = r.hit, !.view = r.row]
  /\ UNCHANGED <<pools, free, evicted_indices_ptr_, evicted_weights_ptr_,
                 eviction_row_id, fault, cycle, th, row_config, scan>>

(* std::optional<void*> get(int64_t key)                                     *)
Get(key) ==
  /\ Running
  /\ UNCHANGED <<row_config, scan>>
  /\ LET r == find(pools, key)
     IN /\ pools' = r.pools
        \* follows: this get comes right after a put of the same key that
        \* returned true; row is then the row that put stored
        /\ LET follows == last.op = "put" /\ last.key = key
                           /\ last.returned /\ last.ret
           IN last' = [NoCall EXCEPT !.op = "get", !.key = key,
                                     !.ret = r.hit, !.view = r.row,
                                     !.follows = follows,
                                     !.row = IF follows THEN last.row ELSE NoRow]
  /\ UNCHANGED <<free, evicted_indices_ptr_, evicted_weights_ptr_,
                 eviction_row_id, fault, cycle, th>>

(* void init_tensor_for_l2_eviction(indices, weights, count)                 *)
Arm(num_lookups, weight_dim, dtype) ==
  /\ Running
  /\ UNCHANGED <<row_config, scan>>
  /\ evicted_indices_ptr_' =
       [null |-> FALSE, dtype |-> "Long", dim |-> 1,
        data |-> [i \in 1 .. num_lookups |-> 1 * Sentinel]]
  /\ evicted_weights_ptr_' =
       [null |-> FALSE, dtype |-> dtype, dim |-> weight_dim,
        data |-> [i \in 1 .. num_lookups |->
                    [j \in 1 .. weight_dim * elementSize(dtype) |-> Uninit]]]
  /\ last' = [NoCall EXCEPT !.op = "arm"]
  /\ cycle' = [clean |-> eviction_row_id = 0, pristine |-> TRUE,
               fresh |-> {}, evs |-> << >>, armed |-> TRUE, count |-> num_lookups]
  /\ UNCHANGED <<pools, free, eviction_row_id, fault, th>>

(* void reset_eviction_states()                                              *)
Reset ==
  /\ Running
  /\ UNCHANGED <<row_config, scan>>
  /\ eviction_row_id' = 0
  /\ last' = [NoCall EXCEPT !.op = "reset"]
  /\ cycle' = [cycle EXCEPT !.clean = cycle.pristine, !.fresh = {}, !.evs = << >>]
  /\ UNCHANGED <<pools, free, evicted_indices_ptr_, evicted_weights_ptr_, fault, th>>

RECURSIVE SumFree(_, _)
SumFree(fr, ps) ==
  IF ps = {} THEN 0
  ELSE LET p == CHOOSE x \in ps : TRUE IN fr[p] + SumFree(fr, ps \ {p})

(* std::vector<int64_t> get_cache_usage(): <<freeBytes, capacity>>           *)
get_cache_usage(fr) ==
  << SumFree(fr, { pool_ids_[i] : i \in DOMAIN pool_ids_ }),
     cache_config_.cache_size_bytes >>

GetCacheUsage ==
  /\ Running
  /\ UNCHANGED <<row_config, scan>>
  /\ last' = [NoCall EXCEPT !.op = "get_cache_usage", !.view = get_cache_usage(free)]
  /\ UNCHANGED <<pools, free, evicted_indices_ptr_, evicted_weights_ptr_,
                 eviction_row_id, fault, cycle, th>>

(* cache_->getPoolStats(pool_id).numItems(), summed over pool_ids_.           *)
numItems(ps) ==
  SumFree([p \in DOMAIN ps |-> Len(ps[p])], { pool_ids_[i] : i \in DOMAIN pool_ids_ })

(* cache_->begin() .. cache_->end(): the live items, each once, in the order  *)
(* of the buckets of the index; ks are the keys whose buckets are still ahead.*)
RECURSIVE iterate(_, _)
iterate(ps, ks) ==
  IF ks = {} THEN << >>
  ELSE
    LET k == CHOOSE x \in ks : \A y \in ks : x <= y
        at == Holders(ps, k)
        here == IF at = {} THEN << >>
                ELSE LET pi == CHOOSE x \in at : TRUE IN << ps[pi[1]][pi[2]] >>
    IN here \o iterate(ps, ks \ {k})

(* CacheLibCache::get_all_items, with nothing else running.  A row of the    *)
(* output is weight_dim elements of the inferred type, kept as its bytes.    *)
get_all_items(ps, rc) ==
  LET total_num_items == numItems(ps)
      weight_dim == rc.max_D_
      weights_dtype == bytes_to_dtype(rc.item_size_bytes \div weight_dim)
  IN IF weights_dtype = "throw" THEN
       [returned |-> FALSE, error |-> "Unsupported dtype", out |-> NoOut]
     ELSE IF ~DispatchSupported(weights_dtype) THEN
       [returned |-> FALSE, error |-> "not implemented", out |-> NoOut]
     ELSE
       LET items == iterate(ps, Keys)
           item_idx == Len(items)
       IN IF total_num_items # item_idx THEN
            [returned |-> FALSE, error |-> "CHECK_EQ", out |-> NoOut]
          ELSE
            [returned |-> TRUE, error |-> "none",
             out |-> [some |-> TRUE,
                      indices |-> [i \in 1 .. total_num_items |-> items[i].key],
                      weights |-> [i \in 1 .. total_num_items |->
                                     CopyRow(items[i].row, weight_dim,
                                             elementSize(weights_dtype))],
                      count |-> total_num_items]]

(* std::tuple<at::Tensor, at::Tensor, at::Tensor> get_all_items()            *)
GetAllItems ==
  /\ Running
  /\ LET r == get_all_items(pools, row_config)
     IN last' = [NoCall EXCEPT !.op = "get_all_items", !.returned = r.returned,
                               !.error = r.error, !.out = r.out]
  /\ UNCHANGED <<pools, free, evicted_indices_ptr_, evicted_weights_ptr_,
                 eviction_row_id, fault, cycle, th, row_config, scan>>

(* A read of the capture that never finds a buffer.                          *)
get_evicted_none(ind, wts) == NoOut

(* CacheLibCache::get_evicted_indices_and_weights: the pair, or folly::none. *)
get_evicted_indices_and_weights(ind, wts) ==
  IF ~ind.null THEN
    [NoOut EXCEPT !.some = TRUE, !.indices = ind.data, !.weights = wts.data]
  ELSE NoOut

GetEvictedIndicesAndWeights ==
  /\ Running
  /\ last' = [NoCall EXCEPT
                !.op = "get_evicted_indices_and_weights",
                !.out = get_evicted_indices_and_weights(evicted_indices_ptr_,
                                                        evicted_weights_ptr_)]
  /\ UNCHANGED <<pools, free, evicted_indices_ptr_, evicted_weights_ptr_,
                 eviction_row_id, fault, cycle, th, row_config, scan>>

Next ==
  \/ \E key \in Keys, data \in Rows : Put(key, data)
  \/ \E key \in Keys : Get(key)
  \/ \E n \in 0 .. MaxLookups, dtype \in ArmDTypes : Arm(n, WeightDim, dtype)
  \/ Reset
  \/ GetCacheUsage
  \/ GetAllItems
  \/ GetEvictedIndicesAndWeights

Spec == Init /\ [][Next]_vars

(* The engine constructed with any of the row configurations.                *)
InitItems ==
  /\ pools = [p \in Shards |-> << >>]
  /\ free = [p \in Shards |-> PoolSize]
  /\ evicted_indices_ptr_ = NullTensor
  /\ evicted_weights_ptr_ = NullTensor
  /\ eviction_row_id = 0
  /\ fault = NoFault
  /\ last = NoCall
  /\ cycle = NoCycle
  /\ th = [t \in Threads |-> IdleThread]
  /\ row_config \in RowConfigs
  /\ scan = IdleScan

(* The operations of Next on such an engine; the capture buffer is armed in  *)
(* one shape, one row of WeightDim bytes.                                    *)
NextItems ==
  \/ \E key \in Keys, data \in Rows : Put(key, data)
  \/ \E key \in Keys : Get(key)
  \/ Arm(1, WeightDim, "Byte")
  \/ Reset
  \/ GetCacheUsage
  \/ GetAllItems
  \/ GetEvictedIndicesAndWeights

SpecItems == InitItems /\ [][NextItems]_vars

-----------------------------------------------------------------------------
(* Concurrent puts: each thread runs put step by step; the allocator's own   *)
(* operations (reserve, evict, insert-or-replace) are atomic, the callback   *)
(* runs on the calling thread between them, statement by statement.          *)

RECURSIVE PutAll(_, _)
PutAll(st, calls) ==
  IF calls = << >> THEN st
  ELSE PutAll(put(st, Head(calls)[1], Head(calls)[2], "segv"), Tail(calls))

(* The cache before the concurrent batch: both pools filled by earlier puts. *)
Filled ==
  PutAll([pools |-> [p \in Shards |-> << >>], free |-> [p \in Shards |-> PoolSize],
          ind |-> NullTensor, wts |-> NullTensor, row_id |-> 0, fault |-> NoFault,
          evicted |-> << >>, replaced |-> FALSE, handle |-> FALSE, ret |-> FALSE],
         << <<0, <<2, 1>> >>, <<Sentinel, <<1>> >>, <<1, <<1>> >> >>)

(* The batch starts armed for one eviction per thread, the cursor reset.     *)
InitConc ==
  /\ pools = Filled.pools
  /\ free = Filled.free
  /\ evicted_indices_ptr_ =
       [null |-> FALSE, dtype |-> "Long", dim |-> 1,
        data |-> [i \in 1 .. NThreads |-> 1 * Sentinel]]
  /\ evicted_weights_ptr_ =
       [null |-> FALSE, dtype |-> "Byte", dim |-> WeightDim,
        data |-> [i \in 1 .. NThreads |-> [j \in 1 .. WeightDim |-> Uninit]]]
  /\ eviction_row_id = 0
  /\ fault = NoFault
  /\ last = [NoCall EXCEPT !.op = "reset"]
  /\ cycle = [clean |-> TRUE, pristine |-> TRUE, fresh |-> {}, evs |-> << >>,
              armed |-> TRUE, count |-> NThreads]
  /\ th = [t \in Threads |-> IdleThread]
  /\ row_config = [item_size_bytes |-> cache_config_.item_size_bytes,
                   max_D_ |-> cache_config_.max_D_]
  /\ scan = IdleScan

(* put(key, data) is called on thread t.                                     *)
T_Call(t, key, data) ==
  /\ Running /\ th[t].pc = "idle"
  /\ UNCHANGED <<row_config, scan>>
  /\ th' = [th EXCEPT ![t] = [IdleThread EXCEPT !.pc = "allocate",
                                                !.key = key, !.row = data]]
  /\ UNCHANGED <<pools, free, evicted_indices_ptr_, evicted_weights_ptr_,
                 eviction_row_id, fault, last, cycle>>

(* cache_->allocate: reserve the bytes, or evict the pool's least recently   *)
(* used item and run the callback for it, or give no handle.                 *)
T_Allocate(t) ==
  /\ Alive /\ th[t].pc = "allocate"
  /\ UNCHANGED <<row_config, scan>>
  /\ LET pid == get_pool_id(th[t].key)
         size == nbytes(th[t].row)
     IN IF size <= PoolSize /\ free[pid] >= size THEN
          /\ free' = [free EXCEPT ![pid] = @ - size]
          /\ th' = [th EXCEPT ![t].pc = "insert"]
          /\ UNCHANGED <<pools, cycle>>
        ELSE IF size <= PoolSize /\ pools[pid] # << >> THEN
          LET victim == Head(pools[pid])
          IN /\ pools' = [pools EXCEPT ![pid] = Tail(@)]
             /\ free' = [free EXCEPT ![pid] = @ + nbytes(victim.row)]
             /\ cycle' = [cycle EXCEPT !.pristine = FALSE, !.evs = Append(@, victim)]
             /\ th' = [th EXCEPT ![t].pc = "cb_dispatch", ![t].item = victim,
                                  ![t].context = "kEviction", ![t].after = "allocate"]
        ELSE
          /\ th' = [th EXCEPT ![t].pc = "done", ![t].ret = FALSE]
          /\ UNCHANGED <<pools, free, cycle>>
  /\ UNCHANGED <<evicted_indices_ptr_, evicted_weights_ptr_, eviction_row_id,
                 fault, last>>

(* eviction_cb, line 49-52: the dispatch on the armed dtype, then the reason.*)
T_CbDispatch(t) ==
  /\ Alive /\ th[t].pc = "cb_dispatch"
  /\ UNCHANGED <<row_config, scan>>
  /\ \E ub \in UBOutcomes :
       IF evicted_weights_ptr_.null THEN
         /\ fault' = [outcome |-> ub, cause |-> "null_deref"]
         /\ UNCHANGED th
       ELSE IF ~DispatchSupported(evicted_weights_ptr_.dtype) THEN
         /\ ub = "segv"
         /\ fault' = [outcome |-> "exception", cause |-> "dispatch"]
         /\ UNCHANGED th
       ELSE
         /\ ub = "segv"
         /\ th' = [th EXCEPT ![t].pc = IF th[t].context = "kEviction"
                                       THEN "cb_claim" ELSE th[t].after,
                              ![t].ret = th[t].context # "kEviction"]
         /\ UNCHANGED fault
  /\ UNCHANGED <<pools, free, evicted_indices_ptr_, evicted_weights_ptr_,
                 eviction_row_id, last, cycle>>

(* The declaration of eviction_row_id: a plain integer member, incremented   *)
(* with no lock held and no atomic operation.                                *)
eviction_row_id_atomic == FALSE

(* eviction_cb, line 57, auto row_id = eviction_row_id++ : the cursor is     *)
(* read into row_id.  On a plain member the write of the incremented value   *)
(* is a second access, and other threads run between the two.                *)
T_CbClaim(t) ==
  /\ Alive /\ th[t].pc = "cb_claim"
  /\ UNCHANGED <<row_config, scan>>
  /\ LET claim == claim_row_id(eviction_row_id)
     IN IF eviction_row_id_atomic THEN
          /\ eviction_row_id' = claim.next
          /\ th' = [th EXCEPT ![t].pc = "cb_key", ![t].row_id = claim.row_id]
        ELSE
          /\ th' = [th EXCEPT ![t].pc = "cb_incr", ![t].row_id = claim.row_id]
          /\ UNCHANGED eviction_row_id
  /\ UNCHANGED <<pools, free, evicted_indices_ptr_, evicted_weights_ptr_,
                 fault, last, cycle>>

(* eviction_cb, line 57, second half: the value read, plus one, is written   *)
(* back to the cursor.                                                       *)
T_CbIncrement(t) ==
  /\ Alive /\ th[t].pc = "cb_incr"
  /\ UNCHANGED <<row_config, scan>>
  /\ eviction_row_id' = claim_row_id(th[t].row_id).next
  /\ th' = [th EXCEPT ![t].pc = "cb_key"]
  /\ UNCHANGED <<pools, free, evicted_indices_ptr_, evicted_weights_ptr_,
                 fault, last, cycle>>

(* eviction_cb, line 61: indices_data_ptr[row_id] = *key_ptr                 *)
T_CbWriteKey(t) ==
  /\ Alive /\ th[t].pc = "cb_key"
  /\ UNCHANGED <<row_config, scan>>
  /\ \E ub \in UBOutcomes :
       IF th[t].row_id >= Len(evicted_indices_ptr_.data) THEN
         /\ fault' = [outcome |-> ub, cause |-> "oob_write"]
         /\ th' = [th EXCEPT ![t].pc = IF ub = "corrupt" THEN "cb_row" ELSE @]
         /\ UNCHANGED evicted_indices_ptr_
       ELSE
         /\ ub = "segv"
         /\ evicted_indices_ptr_' =
              [evicted_indices_ptr_ EXCEPT !.data[th[t].row_id + 1] = th[t].item.key]
         /\ th' = [th EXCEPT ![t].pc = "cb_row"]
         /\ UNCHANGED fault
  /\ UNCHANGED <<pools, free, evicted_weights_ptr_, eviction_row_id, last, cycle>>

(* eviction_cb, line 63-67: the copy of the row into its slot.               *)
T_CbWriteRow(t) ==
  /\ Alive /\ th[t].pc = "cb_row"
  /\ UNCHANGED <<row_config, scan>>
  /\ \E ub \in UBOutcomes :
       IF th[t].row_id >= Len(evicted_weights_ptr_.data) THEN
         /\ fault' = [outcome |-> ub, cause |-> "oob_write"]
         /\ th' = [th EXCEPT ![t].pc = IF ub = "corrupt" THEN th[t].after ELSE @]
         /\ UNCHANGED evicted_weights_ptr_
       ELSE
         /\ ub = "segv"
         /\ evicted_weights_ptr_' =
              [evicted_weights_ptr_ EXCEPT
                 !.data[th[t].row_id + 1] =
                    CopyRow(th[t].item.row, evicted_weights_ptr_.dim,
                            elementSize(evicted_weights_ptr_.dtype))]
         /\ th' = [th EXCEPT ![t].pc = th[t].after]
         /\ UNCHANGED fault
  /\ UNCHANGED <<pools, free, evicted_indices_ptr_, eviction_row_id, last, cycle>>

(* put, line 115-117: memcpy, insertOrReplace, return true; the callback     *)
(* runs for a replaced entry when its handle is released.                    *)
T_Insert(t) ==
  /\ Alive /\ th[t].pc = "insert"
  /\ UNCHANGED <<row_config, scan>>
  /\ LET pid == get_pool_id(th[t].key)
         item == [key |-> th[t].key, row |-> th[t].row]
         old == Holders(pools, th[t].key)
     IN IF old = {} THEN
          /\ pools' = [pools EXCEPT ![pid] = Append(@, item)]
          /\ th' = [th EXCEPT ![t].pc = "done", ![t].ret = TRUE]
          /\ UNCHANGED free
        ELSE
          LET pi == CHOOSE x \in old : TRUE
              gone == pools[pi[1]][pi[2]]
          IN /\ pools' = [[pools EXCEPT ![pid] = Append(@, item)]
                            EXCEPT ![pi[1]] = RemoveAt(@, pi[2])]
             /\ free' = [free EXCEPT ![pi[1]] = @ + nbytes(gone.row)]
             /\ th' = [th EXCEPT ![t].pc = "cb_dispatch", ![t].item = gone,
                                  ![t].context = "kNormal", ![t].after = "done"]
  /\ UNCHANGED <<evicted_indices_ptr_, evicted_weights_ptr_, eviction_row_id,
                 fault, last, cycle>>

NextConc ==
  \E t \in Threads :
     \/ \E key \in Keys, data \in Rows : T_Call(t, key, data)
     \/ T_Allocate(t)
     \/ T_CbDispatch(t)
     \/ T_CbClaim(t)
     \/ T_CbIncrement(t)
     \/ T_CbWriteKey(t)
     \/ T_CbWriteRow(t)
     \/ T_Insert(t)

SpecConc == InitConc /\ [][NextConc]_vars

-----------------------------------------------------------------------------
(* get_all_items statement by statement, while the puts of other threads     *)
(* run between its steps, themselves step by step: a scan step can fall      *)
(* between a put's allocate, its callbacks and its insertOrReplace.  The     *)
(* iterator walks the buckets of the index in their order; scan.itr is the   *)
(* key of the bucket it stands on.                                           *)

(* get_all_items is entered: total_num_items = 0.                            *)
S_Call ==
  /\ Running /\ scan.pc = "idle"
  /\ scan' = [IdleScan EXCEPT !.pc = "count"]
  /\ UNCHANGED <<pools, free, evicted_indices_ptr_, evicted_weights_ptr_,
                 eviction_row_id, fault, last, cycle, th, row_config>>

(* line 122-124: total_num_items += getPoolStats(pool_id).numItems(), for    *)
(* one pool of pool_ids_.                                                    *)
S_Count ==
  /\ Alive /\ scan.pc = "count"
  /\ LET pool_id == pool_ids_[scan.next_pool]
     IN scan' = [scan EXCEPT
                   !.total_num_items = @ + Len(pools[pool_id]),
                   !.next_pool = @ + 1,
                   !.pc = IF scan.next_pool + 1 = Cardinality(DOMAIN pool_ids_)
                          THEN "alloc" ELSE "count"]
  /\ UNCHANGED <<pools, free, evicted_indices_ptr_, evicted_weights_ptr_,
                 eviction_row_id, fault, last, cycle, th, row_config>>

(* line 125-137: the element type, the two at::empty tensors of              *)
(* total_num_items rows, the dispatch, item_idx = 0 and cache_->begin().     *)
S_Alloc ==
  /\ Alive /\ scan.pc = "alloc"
  /\ LET weight_dim == row_config.max_D_
         weights_dtype == bytes_to_dtype(row_config.item_size_bytes \div weight_dim)
     IN IF weights_dtype = "throw" \/ ~DispatchSupported(weights_dtype) THEN
          /\ scan' = [scan EXCEPT !.pc = "done"]
          /\ last' = [NoCall EXCEPT
                        !.op = "get_all_items", !.returned = FALSE,
                        !.error = IF weights_dtype = "throw"
                                  THEN "Unsupported dtype" ELSE "not implemented"]
        ELSE
          /\ scan' = [scan EXCEPT
                        !.pc = "iterate", !.item_idx = 0, !.itr = Sentinel - 1,
                        !.indices = [i \in 1 .. scan.total_num_items |-> Uninit],
                        !.weights = [i \in 1 .. scan.total_num_items |->
                                       [j \in 1 .. weight_dim * elementSize(weights_dtype)
                                          |-> Uninit]]]
          /\ UNCHANGED last
  /\ UNCHANGED <<pools, free, evicted_indices_ptr_, evicted_weights_ptr_,
                 eviction_row_id, fault, cycle, th, row_config>>

(* line 138-147: one turn of the loop.  The iterator moves to the next live  *)
(* item; its key and row are stored at item_idx, with no test of item_idx    *)
(* against total_num_items, and item_idx is incremented.  Stores at an index *)
(* past the tensors either trap or land outside them, and the loop goes on.  *)
S_Visit ==
  /\ Alive /\ scan.pc = "iterate"
  /\ LET ahead == { k \in LiveKeys(pools) : k > scan.itr }
     IN IF ahead = {} THEN
          /\ scan' = [scan EXCEPT !.pc = "check"]
          /\ UNCHANGED fault
        ELSE
          LET k == CHOOSE x \in ahead : \A y \in ahead : x <= y
              pi == CHOOSE x \in Holders(pools, k) : TRUE
              item == pools[pi[1]][pi[2]]
              weight_dim == row_config.max_D_
              size == elementSize(bytes_to_dtype(row_config.item_size_bytes
                                                   \div weight_dim))
          IN \E ub \in UBOutcomes :
               IF scan.item_idx >= scan.total_num_items THEN
                 /\ fault' = [outcome |-> ub, cause |-> "scan_oob_write"]
                 /\ scan' = IF ub = "corrupt"
                            THEN [scan EXCEPT !.itr = k, !.item_idx = @ + 1]
                            ELSE scan
               ELSE
                 /\ ub = "segv"
                 /\ scan' = [scan EXCEPT
                               !.itr = k,
                               !.indices[scan.item_idx + 1] = item.key,
                               !.weights[scan.item_idx + 1] =
                                  CopyRow(item.row, weight_dim, size),
                               !.item_idx = @ + 1]
                 /\ UNCHANGED fault
  /\ UNCHANGED <<pools, free, evicted_indices_ptr_, evicted_weights_ptr_,
                 eviction_row_id, last, cycle, th, row_config>>

(* line 148-155: CHECK_EQ(total_num_items, item_idx), then the result.       *)
S_Check ==
  /\ Alive /\ scan.pc = "check"
  /\ IF scan.total_num_items # scan.item_idx THEN
       /\ fault' = [outcome |-> "fatal", cause |-> "CHECK_EQ"]
       /\ UNCHANGED <<last, scan>>
     ELSE
       /\ scan' = [scan EXCEPT !.pc = "done"]
       /\ last' = [NoCall EXCEPT
                     !.op = "get_all_items",
                     !.out = [some |-> TRUE, indices |-> scan.indices,
                              weights |-> scan.weights,
                              count |-> scan.total_num_items]]
       /\ UNCHANGED fault
  /\ UNCHANGED <<pools, free, evicted_indices_ptr_, evicted_weights_ptr_,
                 eviction_row_id, cycle, th, row_config>>

(* The scan beside the puts of NextConc; the batch starts as in InitConc,    *)
(* the cache filled and the capture armed before the threads run.            *)
NextScan ==
  \/ \E t \in Threads :
        \/ \E key \in Keys, data \in Rows : T_Call(t, key, data)
        \/ T_Allocate(t)
        \/ T_CbDispatch(t)
        \/ T_CbClaim(t)
        \/ T_CbIncrement(t)
        \/ T_CbWriteKey(t)
        \/ T_CbWriteRow(t)
        \/ T_Insert(t)
  \/ S_Call
  \/ S_Count
  \/ S_Alloc
  \/ S_Visit
  \/ S_Check

SpecScan == InitConc /\ [][NextScan]_vars

-----------------------------------------------------------------------------
(* Shorthands for the properties.                                            *)

Armed == ~evicted_indices_ptr_.null

NumLookups == Len(evicted_indices_ptr_.data)

LastPutEvicted == last.op = "put" /\ last.evicted # << >>

LiveBytes == SumFree([p \in Shards |-> SumBytes(pools[p])], Shards)

-----------------------------------------------------------------------------
\* C1: a put that evicts while no capture buffer was ever armed does not
\* crash: the event is dropped, the put returns true and the engine keeps
\* running with its cursor at the value it had.
C1_UnarmedEvictionIsDropped ==
  (LastPutEvicted /\ ~Armed) =>
     (fault = NoFault /\ last.returned /\ last.ret)

\* C2: while a buffer is armed the cursor never exceeds its num_lookups and
\* the handler never stores at a slot index >= num_lookups.
C2_CursorWithinBuffer ==
  Armed => (eviction_row_id <= NumLookups /\ fault.cause # "oob_write")

\* C3: an eviction that overflows the armed buffer is signalled as a fatal
\* invariant violation: the put does not return, and nothing is stored out
\* of bounds.
C3_OverflowIsFatal ==
  (LastPutEvicted /\ Armed /\ eviction_row_id > NumLookups) =>
     (fault.outcome = "fatal" /\ fault.cause = "overflow_check" /\ ~last.returned)

\* C5: in a cycle armed with buffer size B and the cursor reset to 0, when
\* E <= B evictions have occurred, exactly E slots of evicted_keys differ
\* from the sentinel and each of them holds a key that was in the cache
\* before the batch.
C5_ExactlyESlotsOfOldKeys ==
  (cycle.clean /\ Len(cycle.evs) <= NumLookups) =>
     /\ Cardinality({ i \in 1 .. NumLookups :
                        evicted_indices_ptr_.data[i] # Sentinel }) = Len(cycle.evs)
     /\ \A i \in 1 .. NumLookups :
          evicted_indices_ptr_.data[i] # Sentinel =>
             evicted_indices_ptr_.data[i] \notin cycle.fresh

\* C6: when the callback fires for the old entry of a replaced key, it is a
\* no-op: the put that only replaced returns and the engine keeps running.
C6_ReplaceCallbackIsNoOp ==
  (last.op = "put" /\ last.replaced /\ last.evicted = << >>) =>
     (fault = NoFault /\ last.returned /\ last.ret)

\* C7 (as claimed): an eviction triggered by put(k, row) removes an entry
\* whose key is different from k, in a run where every call has returned.
C7_EvictsAnotherKey ==
  (last.op = "put" /\ Running) =>
     \A i \in DOMAIN last.evicted : last.evicted[i].key # last.key

(* The number of least recently used items that must go before size bytes   *)
(* are free in a pool holding items with fr bytes free.                      *)
RECURSIVE Needed(_, _, _)
Needed(items, fr, size) ==
  IF fr >= size \/ items = << >> THEN 0
  ELSE 1 + Needed(Tail(items), fr + nbytes(Head(items).row), size)

C7_VictimsAreThePoolsLRU ==
  (last'.op = "put" /\ last'.returned) =>
     LET pid == get_pool_id(last'.key)
         n == IF nbytes(last'.row) > PoolSize THEN 0
              ELSE Needed(pools[pid], free[pid], nbytes(last'.row))
         own == \E i \in DOMAIN last'.evicted : last'.evicted[i].key = last'.key
     IN /\ last'.evicted = SubSeq(pools[pid], 1, n)
        /\ own => ~last'.replaced
        /\ (last'.key \in LiveKeys(pools) /\ last'.ret /\ ~own) => last'.replaced

\* C7 (amended): the entries evicted by a put(k, row) that returns are exactly
\* the least recently used entries of k's pool needed to make room for row,
\* chosen before the old entry of k is released; an evicted key differs from
\* k unless the old entry of k is among them, and then it is reported as an
\* eviction and no replace follows.  Otherwise the old entry of k is removed
\* as a replace.
C7_EvictionIsLRUOfPool == [][C7_VictimsAreThePoolsLRU]_vars

\* C7 witness: a put that returned evicted, and captured, the old entry of
\* its own key.
C7_Witness ==
  /\ last.op = "put" /\ Running /\ last.ret /\ Len(last.evicted) = 1
  /\ last.evicted[1].key = last.key
  /\ cycle.clean /\ Len(cycle.evs) = 1
  /\ evicted_indices_ptr_.data[1] = last.key

\* C8: a get(k) that comes right after a put(k, r) that returned true hits
\* and returns a view equal to r, also when that put replaced an older row.
C8_RoundTrip ==
  (last.op = "get" /\ last.follows) => (last.ret /\ last.view = last.row)

\* C8 witness: such a get has returned the two-element row.
C8_Witness ==
  last.op = "get" /\ last.follows /\ last.ret /\ last.view = <<2, 1>>

\* C9: every key has at most one live entry, in the pool of its shard, and
\* its shard is in [0, num_shards).
C9_OneEntryInItsPool ==
  \A k \in Keys :
     /\ hash_shard(k, cache_config_.num_shards) \in 0 .. (cache_config_.num_shards - 1)
     /\ Cardinality(Holders(pools, k)) <= 1
     /\ \A pi \in Holders(pools, k) :
          pi[1] = pool_ids_[hash_shard(k, cache_config_.num_shards)]

\* C9 witness: both pools hold entries after a put replaced one.
C9_Witness ==
  /\ \A p \in Shards : pools[p] # << >>
  /\ last.op = "put" /\ last.replaced /\ Running

\* C10: free bytes plus live bytes never exceed cache_size_bytes, no pool
\* exceeds its slice, and get_cache_usage reports that free total against
\* the configured capacity.
C10_CapacityConserved ==
  /\ get_cache_usage(free)[1] + LiveBytes <= cache_config_.cache_size_bytes
  /\ \A p \in Shards :
       /\ free[p] >= 0
       /\ free[p] + SumBytes(pools[p])
            <= cache_config_.cache_size_bytes \div cache_config_.num_shards
  /\ (last.op = "get_cache_usage" =>
        /\ last.view = get_cache_usage(free)
        /\ last.view[1] + LiveBytes <= last.view[2])

\* C10 witness: get_cache_usage reported no free byte on a full cache.
C10_Witness ==
  /\ last.op = "get_cache_usage" /\ last.view[1] = 0
  /\ \A p \in Shards : SumBytes(pools[p]) = PoolSize

-----------------------------------------------------------------------------
(* Threads that hold a claimed slot they are still writing.                  *)
Writing == { t \in Threads : th[t].pc \in { "cb_key", "cb_row" } }

(* Threads whose eviction has not finished claiming its slot.                *)
Unclaimed ==
  { t \in Threads : th[t].pc \in { "cb_dispatch", "cb_claim", "cb_incr" }
                     /\ th[t].context = "kEviction" }

Quiescent == \A t \in Threads : th[t].pc \in { "idle", "done" }

\* C4: with puts running on several threads in one armed cycle, every
\* eviction claims a slot of its own: two callbacks in flight never hold the
\* same slot, the cursor equals the number of evictions that have claimed,
\* and once the puts are over every eviction's key is in the buffer, as often
\* as that key was evicted.
C4_DistinctSlots ==
  Running =>
     /\ \A t1 \in Writing : \A t2 \in Writing \ {t1} : th[t1].row_id # th[t2].row_id
     /\ eviction_row_id = Len(cycle.evs) - Cardinality(Unclaimed)
     /\ Quiescent =>
          \A k \in Keys :
             Cardinality({ i \in 1 .. eviction_row_id :
                             evicted_indices_ptr_.data[i] = k })
               = Cardinality({ i \in DOMAIN cycle.evs : cycle.evs[i].key = k })

-----------------------------------------------------------------------------
(* The output slots of a get_all_items result that hold the item it.         *)
SlotsOf(out, it) ==
  { j \in DOMAIN out.indices : out.indices[j] = it.key /\ out.weights[j] = it.row }

LiveItems == UNION { { pools[p][i] : i \in DOMAIN pools[p] } : p \in Shards }

(* item_size_bytes / max_D_ : the element width get_all_items infers.        *)
Width == row_config.item_size_bytes \div row_config.max_D_

(* Every stored row has the configured item_size_bytes.                      *)
RowsAsConfigured ==
  \A it \in LiveItems : nbytes(it.row) = row_config.item_size_bytes

\* C11: on an engine configured with an element width of 1, 2, 4 or 8 bytes
\* and holding rows of item_size_bytes, get_all_items, with nothing else
\* running, returns arrays whose length and count are the number of live
\* items, every live entry is in exactly one slot with its key and its own
\* row, and an empty cache gives zero-length arrays and count 0.
C11_ScanReturnsEveryEntry ==
  (last.op = "get_all_items" /\ Width \in { 1, 2, 4, 8 } /\ RowsAsConfigured) =>
     /\ last.returned
     /\ last.out.count = numItems(pools)
     /\ Len(last.out.indices) = last.out.count
     /\ Len(last.out.weights) = last.out.count
     /\ \A it \in LiveItems : Cardinality(SlotsOf(last.out, it)) = 1
     /\ (LiveItems = {} => last.out.indices = << >> /\ last.out.count = 0)

\* C13: whatever the element width the engine was constructed with,
\* get_all_items returns for the widths 1, 2, 4 and 8 and raises the
\* unsupported-configuration error for every other width.
C13_WidthTable ==
  (last.op = "get_all_items") =>
     /\ (Width \in { 1, 2, 4, 8 } => last.returned /\ last.error = "none")
     /\ (Width \notin { 1, 2, 4, 8 } =>
           ~last.returned /\ last.error = "Unsupported dtype")

C16_PairOrNone ==
  /\ evicted_indices_ptr_.null = evicted_weights_ptr_.null
  /\ (last.op = "get_evicted_indices_and_weights") =>
        /\ last.out.some = cycle.armed
        /\ (last.out.some =>
              /\ last.out.indices = evicted_indices_ptr_.data
              /\ last.out.weights = evicted_weights_ptr_.data
              /\ Len(last.out.indices) = cycle.count
              /\ Len(last.out.weights) = cycle.count)
        /\ (~last.out.some =>
              last.out.indices = << >> /\ last.out.weights = << >>)

C16_ReadChangesNothing ==
  (last'.op = "get_evicted_indices_and_weights") =>
     UNCHANGED <<evicted_indices_ptr_, evicted_weights_ptr_, eviction_row_id,
                 pools, free, cycle>>

\* C16: get_evicted_indices_and_weights returns none exactly when the engine
\* was never armed; once armed it returns the keys and the rows of the buffer
\* armed last, the two pointers are always both set or both null, and the
\* call changes neither the buffer nor the cursor.
C16_ReadEvicted == [] C16_PairOrNone /\ [][C16_ReadChangesNothing]_vars

\* C16 witness: the read returned a buffer that holds a captured eviction.
C16_Witness ==
  /\ last.op = "get_evicted_indices_and_weights" /\ last.out.some
  /\ cycle.clean /\ Len(cycle.evs) = 1 /\ eviction_row_id = 1
  /\ last.out.indices[1] = cycle.evs[1].key

\* C12: when the allocation of put(key, row) fails, put returns false with no
\* fatal error and the key has no entry in the cache afterwards.
C12_FailedPutLeavesKeyAbsent ==
  (last.op = "put" /\ last.returned /\ ~last.ret) =>
     (fault = NoFault /\ last.key \notin LiveKeys(pools))

C14_NoBufferAfterReset ==
  (last.op = "reset") => (evicted_indices_ptr_.null /\ evicted_weights_ptr_.null)

C14_EvictionAfterResetIsDropped ==
  (last.op = "reset" /\ last'.op = "put" /\ last'.evicted # << >>) =>
     /\ UNCHANGED <<evicted_indices_ptr_, evicted_weights_ptr_, eviction_row_id>>
     /\ last'.returned

\* C14: after reset_eviction_states the engine is unarmed with no buffer
\* attached, and an eviction that fires after the reset and before the next
\* arm is dropped: the put returns and the buffer of the cycle before, which
\* the caller drained, is not modified.
C14_ResetUnarms ==
  [] C14_NoBufferAfterReset /\ [][C14_EvictionAfterResetIsDropped]_vars

\* C15: right after init_tensor_for_l2_eviction with count num_lookups,
\* whatever was called before, the engine is armed, the cursor is 0 and the
\* buffer has num_lookups slots whose keys are all the sentinel.
C15_ArmStartsAtZero ==
  (last.op = "arm") =>
     /\ Armed
     /\ eviction_row_id = 0
     /\ NumLookups = cycle.count
     /\ Len(evicted_weights_ptr_.data) = cycle.count
     /\ \A i \in 1 .. NumLookups : evicted_indices_ptr_.data[i] = Sentinel

(* The items of a sequence, as a set.                                        *)
Range(seq) == { seq[i] : i \in DOMAIN seq }

C17_GetFrame ==
  (last'.op = "get") =>
     /\ \A p \in Shards :
          Range(pools'[p]) = Range(pools[p]) /\ Len(pools'[p]) = Len(pools[p])
     /\ UNCHANGED <<free, evicted_indices_ptr_, evicted_weights_ptr_,
                    eviction_row_id, fault, cycle>>
     /\ last'.evicted = << >> /\ ~last'.replaced
     /\ last'.returned /\ last'.error = "none"
     /\ (last'.key \notin LiveKeys(pools) => ~last'.ret /\ last'.view = NoRow)
     /\ (last'.key \in LiveKeys(pools) =>
           /\ last'.ret
           /\ \E it \in Range(pools[get_pool_id(last'.key)]) :
                 it.key = last'.key /\ it.row = last'.view)

\* C17: get(key), hit or miss, evicts nothing: the live entries and their
\* rows, every pool's free bytes, the capture buffer and the cursor are as
\* before, no removal callback has fired, and a get on an absent key returns
\* not-found, not an error.
C17_GetHasNoEvictionEffect == [][C17_GetFrame]_vars

\* C17 witness: with a buffer armed and an eviction captured, a get has hit
\* an entry of a pool that holds two entries.
C17_Witness ==
  /\ last.op = "get" /\ last.ret /\ Running
  /\ cycle.clean /\ Len(cycle.evs) = 1 /\ eviction_row_id = 1
  /\ Len(pools[get_pool_id(last.key)]) = 2

(* The items of a sequence whose key is not k, in their order.               *)
Without(seq, k) == SelectSeq(seq, LAMBDA it : it.key # k)

C18_PutEvictsThePoolsLRU ==
  (last'.op = "put" /\ last'.returned) =>
     LET pid == pool_ids_[hash_shard(last'.key, cache_config_.num_shards)]
         n == Len(last'.evicted)
         kept == SubSeq(pools[pid], n + 1, Len(pools[pid]))
     IN /\ n <= Len(pools[pid])
        /\ last'.evicted = SubSeq(pools[pid], 1, n)
        /\ \A p \in Shards \ {pid} : pools'[p] = pools[p] /\ free'[p] = free[p]
        /\ \A i \in 1 .. n :
             last'.evicted[i].key # last'.key =>
                last'.evicted[i].key \notin LiveKeys(pools')
        /\ pools'[pid] =
             IF last'.ret
             THEN Append(Without(kept, last'.key),
                         [key |-> last'.key, row |-> last'.row])
             ELSE pools[pid]

C18_GetRefreshesRecency ==
  (last'.op = "get" /\ last'.ret) =>
     LET pid == pool_ids_[hash_shard(last'.key, cache_config_.num_shards)]
     IN /\ pools'[pid] =
             Append(Without(pools[pid], last'.key),
                    [key |-> last'.key, row |-> last'.view])
        /\ \A p \in Shards \ {pid} : pools'[p] = pools[p]

C18_AbsentUntilPutAgain ==
  /\ \A k \in LiveKeys(pools') \ LiveKeys(pools) :
        last'.op = "put" /\ last'.key = k /\ last'.ret
  /\ (last'.op = "get" /\ last'.key \notin LiveKeys(pools)) => ~last'.ret

\* C18: eviction is the LRU of the shard: a put(k, row) that needs space
\* evicts the least recently used entries of the pool k routes to, where a
\* put and a get that hits make their entry the most recently used and leave
\* the order of the others; the other pools are unchanged; and an evicted key
\* stays absent, a get on it missing, until that key is put again.
C18_ShardLocalLRU ==
  [][C18_PutEvictsThePoolsLRU /\ C18_GetRefreshesRecency
       /\ C18_AbsentUntilPutAgain]_vars

\* C18 witness: a get on the key a captured eviction removed has missed,
\* while the other pool still holds its entry.
C18_Witness ==
  /\ last.op = "get" /\ ~last.ret /\ Running
  /\ cycle.clean /\ Len(cycle.evs) = 1
  /\ last.key = cycle.evs[1].key
  /\ \A p \in Shards : pools[p] # << >>

\* C19: in a cycle armed with the cursor reset to 0 and puts from one
\* thread, after n <= num_lookups evictions the cursor is n, slot i for
\* every i < n holds the key of the i-th eviction and the row that was
\* stored for that key, and every slot from n on of evicted_keys still holds
\* the sentinel.
C19_SlotsInEvictionOrder ==
  (cycle.clean /\ Len(cycle.evs) <= NumLookups) =>
     LET n == Len(cycle.evs)
     IN /\ eviction_row_id = n
        /\ \A i \in 1 .. n :
             /\ evicted_indices_ptr_.data[i] = cycle.evs[i].key
             /\ evicted_weights_ptr_.data[i] = cycle.evs[i].row
        /\ \A i \in (n + 1) .. NumLookups :
             evicted_indices_ptr_.data[i] = Sentinel

\* C20: get_all_items never stores a key or a row at an output index >= the
\* total it counted and sized its arrays with, also when puts of other
\* threads add entries between the count and the scan: the mismatch stops
\* the call at its fatal check before any such store, and a result that is
\* returned has a count equal to the number of items copied.
C20_NoWritePastCount ==
  /\ fault.cause # "scan_oob_write"
  /\ scan.item_idx <= scan.total_num_items
  /\ (last.op = "get_all_items" /\ last.returned) =>
        /\ last.out.count = Len(last.out.indices)
        /\ last.out.count = Len(last.out.weights)
        /\ (scan.pc = "done" => last.out.count = scan.item_idx)

====
